---- MODULE Spec2Model ----
(***************************************************************************)
(* Contact form of the portfolio: FormValidator, the submission handler    *)
(* handleFormSubmit, the form message with its auto-dismiss timers and     *)
(* the localStorage rate limiter checkRateLimit; and of the page around    *)
(* it the mobile menu, the project modal, the project filters and the      *)
(* throttled scroll listener, with their setTimeout callbacks.             *)
(*                                                                         *)
(* Strings are sequences of one-character strings over the alphabet        *)
(*   "a" (a letter), "1" (a digit), " " (whitespace), "@" and ".".         *)
(* Time is the value of Date.now() in milliseconds.                        *)
(***************************************************************************)
EXTENDS Integers, Sequences, FiniteSets, TLC

VARIABLES
    fields,             \* value of each input / textarea of #contact-form
    errors,             \* formValidator.errors: field name -> message
    fieldUI,            \* per field: text of #<name>-error, class 'error'
    formMessage,        \* #form-message: textContent, className, display
    submitBtn,          \* #submit-btn: disabled, 'loading' class, labels
    isSubmitting,       \* the in-flight flag
    emailjsInitialized, \* whether the email collaborator was initialised
    inflight,           \* suspended handleFormSubmit calls awaiting sendEmail
    timers,             \* pending setTimeout(hideFormMessage) callbacks
    storage,            \* localStorage item 'lastFormSubmit'
    now,                \* Date.now()
    history,            \* observation of the last event and of send calls
    isMenuOpen,         \* whether the mobile menu is open
    bodyOverflow,       \* document.body.style.overflow
    modal,              \* #project-modal: display, classes 'active', 'closing'
    currentFilter,      \* the project filter selected last
    cards,              \* per project card: display, 'hidden', 'visible'
    inThrottle,         \* the flag of the throttled scroll listener
    pageTimers,         \* pending setTimeout callbacks of the page
    pageLog,            \* observation of the last event of the page
    typewriterInstance, \* whether the TypewriterEffect was created
    typewriter,         \* its fields and the textContent of #typewriter
    isAnimationsPaused, \* the pause flag of animations.js
    typeTimers,         \* pending setTimeout callbacks of the typewriter
    prefersReducedMotion, \* matches of (prefers-reduced-motion: reduce)
    documentHidden,     \* document.hidden
    animLog             \* observation of the animations

\* the contact form
formVars == <<fields, errors, fieldUI, formMessage, submitBtn, isSubmitting,
              emailjsInitialized, inflight, timers, storage, now, history>>

\* the rest of the page: menu, modal, project filters, scroll listener
pageVars == <<isMenuOpen, bodyOverflow, modal, currentFilter, cards,
              inThrottle, pageTimers, pageLog>>

\* the animations: typewriter, pause flag, motion preference, visibility
animVars == <<typewriterInstance, typewriter, isAnimationsPaused, typeTimers,
              prefersReducedMotion, documentHidden, animLog>>

vars == <<formVars, pageVars, animVars>>

----------------------------------------------------------------------------
(* Bounds of the model *)

MaxInflight == 2        \* send calls that may be pending at once
MaxRateNow == 180010    \* the clock of the rate-limiter specification stops here
MaxStart == 2           \* latest instant at which that specification starts
MaxNow == 7000          \* the clock of the timed specification stops here
MaxTimers == 2          \* auto-dismiss timers that may be pending at once
MaxPageTimers == 3      \* timers of the menu and modal pending at once
MaxFilterTimers == 4    \* timers of the project filters pending at once
MaxSince == 300         \* the time since the last executed call is counted
                        \* up to here
MaxTypeTimers == 2      \* timers of the typewriter pending at once
MaxUnderflow == 2       \* the typewriter is followed down to this many
                        \* characters below the start of a text

\* the step of the clock of the timed specification: every delay of the
\* program (2000, 5000 and 7000 ms) is a multiple of it
TickLen == 1000

\* the step of the clock of the page: every delay of the page (10, 50, 100
\* and 300 ms) is a multiple of it
PageTickLen == 10

\* the step of the clock of the animations: every delay of the typewriter
\* (50, 100 and 2000 ms) is a multiple of it
AnimTickLen == 50

----------------------------------------------------------------------------
(* The page: mobile menu, project modal, project filters, scroll listener *)

modalAnimationDuration == 300
filterAnimationDuration == 300
modalActiveDelay == 10
cardRevealDelay == 50
scrollThrottleLimit == 100

ClosedModal == [display |-> FALSE, active |-> FALSE, closing |-> FALSE]

\* the project cards of the page in document order, and the value of the
\* data-category attribute of each
ProjectCards == <<"flask-app", "fastapi-demo">>

CardSet == {ProjectCards[i] : i \in 1..Len(ProjectCards)}

Category(card) == IF card = "flask-app" THEN "web" ELSE "api"

\* the values of the data-filter attribute of the filter buttons
Filters == {"all"} \cup {Category(c) : c \in CardSet}

InitialCard == [display |-> TRUE, hidden |-> FALSE, visible |-> FALSE]

NoCard == "none"

NoPageLog ==
    [event |-> "none", modal |-> "never", filter |-> "none",
     overlap |-> FALSE, executed |-> FALSE, elapsed |-> -1, since |-> -1]

PageInit ==
    /\ isMenuOpen = FALSE
    /\ bodyOverflow = ""
    /\ modal = ClosedModal
    /\ currentFilter = "all"
    /\ cards = [c \in CardSet |-> InitialCard]
    /\ inThrottle = FALSE
    /\ pageTimers = <<>>
    /\ pageLog = NoPageLog

\* setTimeout(callback, delay): the pending timers after
setTimeout(tms, kind, delay, card, show) ==
    Append(tms, [kind |-> kind, left |-> delay, card |-> card, show |-> show])

\* toggleMobileMenu(): <<isMenuOpen, document.body.style.overflow>> after
toggleMobileMenu(open, overflow) ==
    <<~open, IF ~open THEN "hidden" ELSE "">>

\* the document click listener of the menu, for a click whose target is
\* outside the hamburger and the menu
closeMenuOnOutsideClick(open, overflow) ==
    IF open THEN toggleMobileMenu(open, overflow) ELSE <<open, overflow>>

\* openProjectModal(projectId): <<modal, document.body.style.overflow,
\* pending timers>> after
openProjectModal(m, overflow, tms) ==
    << [m EXCEPT !.display = TRUE], "hidden",
       setTimeout(tms, "modalActive", modalActiveDelay, NoCard, FALSE) >>

\* closeModal(): <<modal, pending timers>> after
closeModal(m, tms) ==
    << [m EXCEPT !.closing = TRUE],
       setTimeout(tms, "modalHide", modalAnimationDuration, NoCard, FALSE) >>

\* the observation of an event of the page
LogEvent(event) ==
    [pageLog EXCEPT !.event = event, !.executed = FALSE, !.elapsed = -1]

\* click on the hamburger button
ClickHamburger ==
    /\ LET r == toggleMobileMenu(isMenuOpen, bodyOverflow) IN
        /\ isMenuOpen' = r[1]
        /\ bodyOverflow' = r[2]
    /\ pageLog' = LogEvent("hamburger")
    /\ UNCHANGED <<modal, currentFilter, cards, inThrottle, pageTimers>>
    /\ UNCHANGED <<formVars, animVars>>

\* click on a 'view project' button: its own listener opens the modal,
\* then the click reaches the document listener of the menu
ClickViewProject ==
    /\ Len(pageTimers) < MaxPageTimers
    /\ LET o == openProjectModal(modal, bodyOverflow, pageTimers)
           r == closeMenuOnOutsideClick(isMenuOpen, o[2]) IN
        /\ modal' = o[1]
        /\ pageTimers' = o[3]
        /\ isMenuOpen' = r[1]
        /\ bodyOverflow' = r[2]
    /\ pageLog' = [LogEvent("viewProject") EXCEPT !.modal = "open"]
    /\ UNCHANGED <<currentFilter, cards, inThrottle>>
    /\ UNCHANGED <<formVars, animVars>>

\* click on the close button of the modal or on its backdrop: closeModal,
\* then the click reaches the document listener of the menu
ClickClose(target) ==
    /\ modal.display
    /\ Len(pageTimers) < MaxPageTimers
    /\ LET c == closeModal(modal, pageTimers)
           r == closeMenuOnOutsideClick(isMenuOpen, bodyOverflow) IN
        /\ modal' = c[1]
        /\ pageTimers' = c[2]
        /\ isMenuOpen' = r[1]
        /\ bodyOverflow' = r[2]
    /\ pageLog' = [LogEvent(target) EXCEPT !.modal = "closing"]
    /\ UNCHANGED <<currentFilter, cards, inThrottle>>
    /\ UNCHANGED <<formVars, animVars>>

\* keydown of Escape: the listener of the modal, then that of the menu
KeyEscape ==
    /\ modal.display => Len(pageTimers) < MaxPageTimers
    /\ LET c == IF modal.display THEN closeModal(modal, pageTimers)
                ELSE <<modal, pageTimers>>
           r == closeMenuOnOutsideClick(isMenuOpen, bodyOverflow) IN
        /\ modal' = c[1]
        /\ pageTimers' = c[2]
        /\ isMenuOpen' = r[1]
        /\ bodyOverflow' = r[2]
    /\ pageLog' = [LogEvent("escape") EXCEPT
          !.modal = IF modal.display THEN "closing" ELSE pageLog.modal]
    /\ UNCHANGED <<currentFilter, cards, inThrottle>>
    /\ UNCHANGED <<formVars, animVars>>

\* click anywhere outside the hamburger, the menu and the modal
ClickElsewhere ==
    /\ LET r == closeMenuOnOutsideClick(isMenuOpen, bodyOverflow) IN
        /\ isMenuOpen' = r[1]
        /\ bodyOverflow' = r[2]
    /\ pageLog' = LogEvent("elsewhere")
    /\ UNCHANGED <<modal, currentFilter, cards, inThrottle, pageTimers>>
    /\ UNCHANGED <<formVars, animVars>>

RemoveTimer(tms, i) == SubSeq(tms, 1, i - 1) \o SubSeq(tms, i + 1, Len(tms))

\* the timer that runs next: the oldest of those whose delay has elapsed
NextDue(tms, i) ==
    /\ i \in 1..Len(tms)
    /\ tms[i].left = 0
    /\ \A j \in 1..(i - 1) : tms[j].left > 0

\* the callback of pending timer i runs
PageTimerFires(i) ==
    /\ NextDue(pageTimers, i)
    /\ LET tm == pageTimers[i]
           rest == RemoveTimer(pageTimers, i) IN
        CASE tm.kind = "modalActive" ->
                /\ modal' = [modal EXCEPT !.active = TRUE]
                /\ pageTimers' = rest
                /\ UNCHANGED <<bodyOverflow, cards, inThrottle>>
          [] tm.kind = "modalHide" ->
                /\ modal' = ClosedModal
                /\ bodyOverflow' = ""
                /\ pageTimers' = rest
                /\ UNCHANGED <<cards, inThrottle>>
          [] tm.kind = "filter" /\ tm.show ->
                /\ cards' = [cards EXCEPT ![tm.card].display = TRUE]
                /\ pageTimers' = setTimeout(rest, "cardReveal",
                                            cardRevealDelay, tm.card, TRUE)
                /\ UNCHANGED <<modal, bodyOverflow, inThrottle>>
          [] tm.kind = "filter" /\ ~tm.show ->
                /\ cards' = [cards EXCEPT ![tm.card].display = FALSE,
                                          ![tm.card].visible = FALSE]
                /\ pageTimers' = rest
                /\ UNCHANGED <<modal, bodyOverflow, inThrottle>>
          [] tm.kind = "cardReveal" ->
                /\ cards' = [cards EXCEPT ![tm.card].hidden = FALSE,
                                          ![tm.card].visible = TRUE]
                /\ pageTimers' = rest
                /\ UNCHANGED <<modal, bodyOverflow, inThrottle>>
          [] tm.kind = "throttle" ->
                /\ inThrottle' = FALSE
                /\ pageTimers' = rest
                /\ UNCHANGED <<modal, bodyOverflow, cards>>
    /\ pageLog' = LogEvent("timer")
    /\ UNCHANGED <<isMenuOpen, currentFilter>>
    /\ UNCHANGED <<formVars, animVars>>

\* PageTickLen ms pass; the callbacks that are due run before the clock
\* moves on
PageTick ==
    /\ \A i \in 1..Len(pageTimers) : pageTimers[i].left >= PageTickLen
    /\ pageTimers' = [i \in 1..Len(pageTimers) |->
                         [pageTimers[i] EXCEPT !.left = @ - PageTickLen]]
    /\ pageLog' = [LogEvent("tick") EXCEPT
          !.since = IF @ = -1 THEN @
                    ELSE IF @ + PageTickLen > MaxSince THEN MaxSince
                    ELSE @ + PageTickLen]
    /\ UNCHANGED <<isMenuOpen, bodyOverflow, modal, currentFilter, cards,
                   inThrottle>>
    /\ UNCHANGED <<formVars, animVars>>

\* shouldShow that knows no filter 'all'
ShouldShowCategoryOnly(card, filter) == Category(card) = filter

\* filterProjects: shouldShow of a card
ShouldShow(card, filter) == filter = "all" \/ Category(card) = filter

\* the timers filterProjects(filter) sets, one per card from card i on
RECURSIVE filterTimers(_, _, _)
filterTimers(tms, filter, i) ==
    IF i > Len(ProjectCards) THEN tms
    ELSE filterTimers(setTimeout(tms, "filter", filterAnimationDuration,
                                 ProjectCards[i],
                                 ShouldShow(ProjectCards[i], filter)),
                      filter, i + 1)

\* filterProjects(filter): <<cards, pending timers>> after
filterProjects(cs, tms, filter) ==
    << [c \in CardSet |-> [cs[c] EXCEPT !.hidden = TRUE]],
       filterTimers(tms, filter, 1) >>

\* click on the filter button whose data-filter is filter
FilterClick(filter) ==
    /\ Len(pageTimers) + Len(ProjectCards) <= MaxFilterTimers
    /\ LET r == filterProjects(cards, pageTimers, filter) IN
        /\ cards' = r[1]
        /\ pageTimers' = r[2]
    /\ currentFilter' = filter
    /\ pageLog' = [LogEvent("filter") EXCEPT
          !.filter = filter, !.overlap = pageTimers # <<>>]
    /\ UNCHANGED <<isMenuOpen, bodyOverflow, modal, inThrottle>>
    /\ UNCHANGED <<formVars, animVars>>

\* a throttle without its window: every call runs func
throttleEveryCall(inThr, tms) ==
    [executed |-> TRUE, inThrottle |-> inThr, timers |-> tms]

\* a call of throttle(func, limit)'s returned function: whether func ran,
\* inThrottle and the pending timers after
throttle(inThr, tms) ==
    IF ~inThr
    THEN [executed |-> TRUE, inThrottle |-> TRUE,
          timers |-> setTimeout(tms, "throttle", scrollThrottleLimit,
                                NoCard, FALSE)]
    ELSE [executed |-> FALSE, inThrottle |-> inThr, timers |-> tms]

\* a scroll event of the window: the throttled updateActiveNavLink is called
ScrollEvent ==
    /\ LET r == throttle(inThrottle, pageTimers) IN
        /\ inThrottle' = r.inThrottle
        /\ pageTimers' = r.timers
        /\ pageLog' = [LogEvent("scroll") EXCEPT
              !.executed = r.executed,
              !.elapsed = pageLog.since,
              !.since = IF r.executed THEN 0 ELSE @]
    /\ UNCHANGED <<isMenuOpen, bodyOverflow, modal, currentFilter, cards>>
    /\ UNCHANGED <<formVars, animVars>>

----------------------------------------------------------------------------
(* The animations: TypewriterEffect, pauseAllAnimations and               *)
(* resumeAllAnimations, the listeners of the motion preference and of the *)
(* visibility of the page (animations.js)                                 *)

\* ANIMATION_CONFIG.typewriter (on a low-end device the speed is 150)
speed == 100
deleteSpeed == 50
pauseTime == 2000

\* the texts of the typewriter, shortened: three texts of different
\* lengths stand for the five of the page
texts == << <<"D", "e">>, <<"E">>, <<"E", "x", "p">> >>

\* String.prototype.substring(from, to) for from = 0
substring(str, from, to) ==
    SubSeq(str, 1, IF to < 0 THEN 0 ELSE IF to > Len(str) THEN Len(str) ELSE to)

\* new TypewriterEffect(element, texts, config), with the text of the element
NewTypewriter ==
    [currentTextIndex |-> 0, currentCharIndex |-> 0, isDeleting |-> FALSE,
     isWaiting |-> FALSE, textContent |-> <<>>]

\* a typewriter that stays on its text after deleting it
nextTextIndexSame(i) == i

\* type(): the index of the text that follows text i
nextTextIndex(i) == (i + 1) % Len(texts)

\* TypewriterEffect.type(): <<typewriter, pending timers>> after
TypewriterType(tw, paused, tms) ==
    LET currentText == texts[tw.currentTextIndex + 1] IN
    IF paused THEN <<tw, tms>>
    ELSE IF tw.isWaiting
    THEN <<tw, Append(tms, [kind |-> "wait", left |-> pauseTime])>>
    ELSE IF tw.isDeleting
    THEN LET c == tw.currentCharIndex - 1 IN
         << [tw EXCEPT
               !.textContent =
                   substring(currentText, 0, tw.currentCharIndex - 1),
               !.currentCharIndex = c,
               !.isDeleting = IF c = 0 THEN FALSE ELSE @,
               !.currentTextIndex = IF c = 0 THEN nextTextIndex(@) ELSE @],
            Append(tms, [kind |-> "type", left |-> deleteSpeed]) >>
    ELSE LET c == tw.currentCharIndex + 1 IN
         << [tw EXCEPT
               !.textContent =
                   substring(currentText, 0, tw.currentCharIndex + 1),
               !.currentCharIndex = c,
               !.isWaiting = IF c = Len(currentText) THEN TRUE ELSE @],
            Append(tms, [kind |-> "type", left |-> speed]) >>

\* the callback of the pause timer, before it calls type()
endOfPause(tw) == [tw EXCEPT !.isWaiting = FALSE, !.isDeleting = TRUE]

\* resumeAllAnimations(): <<typewriter, pending timers>> after
resumeAllAnimations(instance, tw, tms) ==
    IF instance THEN TypewriterType(tw, FALSE, tms) ELSE <<tw, tms>>

\* the state after the DOMContentLoaded handler, reduced being the motion
\* preference at that time
AnimLoaded(reduced) ==
    /\ prefersReducedMotion = reduced
    /\ documentHidden = FALSE
    /\ isAnimationsPaused = reduced
    /\ typewriterInstance = ~reduced
    /\ typewriter = IF reduced THEN NewTypewriter
                    ELSE TypewriterType(NewTypewriter, FALSE, <<>>)[1]
    /\ typeTimers = IF reduced THEN <<>>
                    ELSE TypewriterType(NewTypewriter, FALSE, <<>>)[2]
    /\ animLog = [reducedSinceLoad |-> reduced, wrapped |-> FALSE]

\* the animations of a page loaded under reduced motion
AnimationsLimited == AnimLoaded(TRUE)

\* pauseAllAnimations() or resumeAllAnimations(), as a listener calls them
PauseOrResume(pause) ==
    /\ (~pause /\ typewriterInstance) => Len(typeTimers) < MaxTypeTimers
    /\ isAnimationsPaused' = pause
    /\ LET r == IF pause THEN <<typewriter, typeTimers>>
                ELSE resumeAllAnimations(typewriterInstance, typewriter,
                                         typeTimers) IN
        /\ typewriter' = r[1]
        /\ typeTimers' = r[2]

\* visibilitychange of the document
VisibilityChange ==
    /\ documentHidden' = ~documentHidden
    /\ PauseOrResume(~documentHidden)
    /\ UNCHANGED <<typewriterInstance, prefersReducedMotion, animLog>>
    /\ UNCHANGED <<formVars, pageVars>>

\* change of the media query (prefers-reduced-motion: reduce)
MotionPreferenceChange ==
    /\ prefersReducedMotion' = ~prefersReducedMotion
    /\ PauseOrResume(~prefersReducedMotion)
    /\ animLog' = [animLog EXCEPT !.reducedSinceLoad = FALSE]
    /\ UNCHANGED <<typewriterInstance, documentHidden>>
    /\ UNCHANGED <<formVars, pageVars>>

\* the callback of pending typewriter timer i runs
TypeTimerFires(i) ==
    /\ NextDue(typeTimers, i)
    /\ typewriter.currentCharIndex > -MaxUnderflow
    /\ LET tm == typeTimers[i]
           rest == RemoveTimer(typeTimers, i)
           r == TypewriterType(IF tm.kind = "wait" THEN endOfPause(typewriter)
                     ELSE typewriter,
                     isAnimationsPaused, rest) IN
        /\ typewriter' = r[1]
        /\ typeTimers' = r[2]
        /\ animLog' = [animLog EXCEPT !.wrapped =
              @ \/ (r[1].currentTextIndex = 0
                       /\ typewriter.currentTextIndex = Len(texts) - 1)]
    /\ UNCHANGED <<typewriterInstance, isAnimationsPaused,
                   prefersReducedMotion, documentHidden>>
    /\ UNCHANGED <<formVars, pageVars>>

\* AnimTickLen ms pass; the callbacks that are due run before the clock
\* moves on
AnimTick ==
    /\ typeTimers # <<>>
    /\ \A i \in 1..Len(typeTimers) : typeTimers[i].left >= AnimTickLen
    /\ typeTimers' = [i \in 1..Len(typeTimers) |->
                         [typeTimers[i] EXCEPT !.left = @ - AnimTickLen]]
    /\ UNCHANGED <<typewriterInstance, typewriter, isAnimationsPaused,
                   prefersReducedMotion, documentHidden, animLog>>
    /\ UNCHANGED <<formVars, pageVars>>

----------------------------------------------------------------------------
(* Strings *)

IsSpace(c) == c = " "

RECURSIVE TrimStart(_)
TrimStart(s) ==
    IF s # <<>> /\ IsSpace(Head(s)) THEN TrimStart(Tail(s)) ELSE s

RECURSIVE TrimEnd(_)
TrimEnd(s) ==
    IF s # <<>> /\ IsSpace(s[Len(s)])
    THEN TrimEnd(SubSeq(s, 1, Len(s) - 1))
    ELSE s

Trim(s) == TrimEnd(TrimStart(s))

Rep(c, n) == [i \in 1..n |-> c]

----------------------------------------------------------------------------
(* FORM_CONFIG *)

FieldNames == <<"name", "email", "subject", "message">>

FieldSet == {FieldNames[i] : i \in 1..Len(FieldNames)}

NoRule == 0

minLength(f) ==
    CASE f = "name" -> 2
      [] f = "subject" -> 5
      [] f = "message" -> 10
      [] OTHER -> NoRule

maxLength(f) ==
    CASE f = "name" -> 50
      [] f = "subject" -> 100
      [] f = "message" -> 1000
      [] OTHER -> NoRule

\* /^[a-zA-Z...\s]+$/ : one or more letters or whitespace characters
NamePattern(s) == Len(s) >= 1 /\ \A i \in 1..Len(s) : s[i] \in {"a", " "}

\* [^\s@]+ : one or more characters, none of them whitespace or '@'
NoSpaceAt(s) == Len(s) >= 1 /\ \A i \in 1..Len(s) : s[i] \notin {" ", "@"}

\* /^[^\s@]+@[^\s@]+\.[^\s@]+$/
EmailPattern(s) ==
    \E i \in 1..Len(s) :
        /\ s[i] = "@"
        /\ NoSpaceAt(SubSeq(s, 1, i - 1))
        /\ \E j \in (i + 1)..Len(s) :
              /\ s[j] = "."
              /\ NoSpaceAt(SubSeq(s, i + 1, j - 1))
              /\ NoSpaceAt(SubSeq(s, j + 1, Len(s)))

HasPattern(f) == f \in {"name", "email"}

PatternTest(f, s) == IF f = "name" THEN NamePattern(s) ELSE EmailPattern(s)

\* FORM_CONFIG.errorMessages (accents dropped)
errorMessages(f, kind) ==
    CASE f = "name" /\ kind = "required" -> "El nombre es obligatorio"
      [] f = "name" /\ kind = "minLength" ->
            "El nombre debe tener al menos 2 caracteres"
      [] f = "name" /\ kind = "maxLength" ->
            "El nombre no puede exceder 50 caracteres"
      [] f = "name" /\ kind = "pattern" ->
            "El nombre solo puede contener letras y espacios"
      [] f = "email" /\ kind = "required" -> "El email es obligatorio"
      [] f = "email" /\ kind = "pattern" ->
            "Por favor ingresa un email valido"
      [] f = "subject" /\ kind = "required" -> "El asunto es obligatorio"
      [] f = "subject" /\ kind = "minLength" ->
            "El asunto debe tener al menos 5 caracteres"
      [] f = "subject" /\ kind = "maxLength" ->
            "El asunto no puede exceder 100 caracteres"
      [] f = "message" /\ kind = "required" -> "El mensaje es obligatorio"
      [] f = "message" /\ kind = "minLength" ->
            "El mensaje debe tener al menos 10 caracteres"
      [] f = "message" /\ kind = "maxLength" ->
            "El mensaje no puede exceder 1000 caracteres"
      [] OTHER -> "undefined"

successMessageDuration == 5000
errorMessageDuration == 7000
demoDelay == 2000
minInterval == 60000

SuccessText == "Mensaje enviado correctamente! Te respondere pronto."
SendErrorText == "Error al enviar el mensaje. Por favor intenta nuevamente."
UnexpectedText == "Ocurrio un error inesperado. Por favor intenta mas tarde."
RateLimitText == "Por favor espera un momento antes de enviar otro mensaje."

----------------------------------------------------------------------------
(* FormValidator *)

\* validateField testing the pattern before the lengths
ViolationKindPatternFirst(f, v) ==
    LET value == Trim(v) IN
    IF value = <<>> THEN "required"
    ELSE IF HasPattern(f) /\ ~PatternTest(f, value) THEN "pattern"
    ELSE IF minLength(f) # NoRule /\ Len(value) < minLength(f)
         THEN "minLength"
    ELSE IF maxLength(f) # NoRule /\ Len(value) > maxLength(f)
         THEN "maxLength"
    ELSE "ok"

\* validateField testing field.value as typed, without trim()
ViolationKindUntrimmed(f, v) ==
    LET value == v IN
    IF value = <<>> THEN "required"
    ELSE IF minLength(f) # NoRule /\ Len(value) < minLength(f)
         THEN "minLength"
    ELSE IF maxLength(f) # NoRule /\ Len(value) > maxLength(f)
         THEN "maxLength"
    ELSE IF HasPattern(f) /\ ~PatternTest(f, value) THEN "pattern"
    ELSE "ok"

\* validateField with exclusive length bounds (<= and >= for < and >)
ViolationKindExclusive(f, v) ==
    LET value == Trim(v) IN
    IF value = <<>> THEN "required"
    ELSE IF minLength(f) # NoRule /\ Len(value) <= minLength(f)
         THEN "minLength"
    ELSE IF maxLength(f) # NoRule /\ Len(value) >= maxLength(f)
         THEN "maxLength"
    ELSE IF HasPattern(f) /\ ~PatternTest(f, value) THEN "pattern"
    ELSE "ok"

\* Kind of the first violated rule of field f with raw value v, or "ok"
ViolationKind(f, v) ==
    LET value == Trim(v) IN
    IF value = <<>> THEN "required"
    ELSE IF minLength(f) # NoRule /\ Len(value) < minLength(f)
         THEN "minLength"
    ELSE IF maxLength(f) # NoRule /\ Len(value) > maxLength(f)
         THEN "maxLength"
    ELSE IF HasPattern(f) /\ ~PatternTest(f, value) THEN "pattern"
    ELSE "ok"

\* the map m without key f (delete this.errors[fieldName])
Delete(m, f) == [g \in (DOMAIN m) \ {f} |-> m[g]]

\* the map m with m[f] = x
Put(m, f, x) == [g \in (DOMAIN m) \cup {f} |-> IF g = f THEN x ELSE m[g]]

EmptyMap == [g \in {} |-> ""]

\* validateField with 'this.errors = {}' for 'delete this.errors[fieldName]'
ValidatorValidateFieldResetting(errs, f, v) ==
    LET kind == ViolationKind(f, v) IN
    IF kind = "ok" THEN EmptyMap
    ELSE Put(EmptyMap, f, errorMessages(f, kind))

\* FormValidator.validateField: the errors map after validating f
ValidatorValidateField(errs, f, v) ==
    LET kind == ViolationKind(f, v) IN
    IF kind = "ok" THEN Delete(errs, f)
    ELSE Put(Delete(errs, f), f, errorMessages(f, kind))

FieldIsValid(f, v) == ViolationKind(f, v) = "ok"

\* FormValidator.validateForm: the errors map after validating the fields
\* FieldNames[1..n] in order, starting from the empty map
RECURSIVE ValidateFormUpTo(_, _)
ValidateFormUpTo(vals, n) ==
    IF n = 0 THEN EmptyMap
    ELSE ValidatorValidateField(ValidateFormUpTo(vals, n - 1),
                                FieldNames[n], vals[FieldNames[n]])

validateFormErrors(vals) == ValidateFormUpTo(vals, Len(FieldNames))

validateFormResult(vals) == \A f \in FieldSet : FieldIsValid(f, vals[f])

\* validateForm without 'this.errors = {}', validating only the fields
\* that have no entry yet
validateFormKeeping(errs, vals) ==
    [errors |-> [g \in (DOMAIN errs) \cup (DOMAIN validateFormErrors(vals))
                    |-> IF g \in DOMAIN errs THEN errs[g]
                        ELSE validateFormErrors(vals)[g]],
     isValid |-> \A f \in FieldSet \ DOMAIN errs : FieldIsValid(f, vals[f])]

\* validateForm answering from the entries it finds on entry
validateFormStale(errs, vals) ==
    [errors |-> validateFormErrors(vals), isValid |-> DOMAIN errs = {}]

\* FormValidator.validateForm() called while the errors map is errs:
\* the errors map after the call and the value returned
validateForm(errs, vals) ==
    [errors |-> validateFormErrors(vals), isValid |-> validateFormResult(vals)]

----------------------------------------------------------------------------
(* The DOM of the form *)

NoFocus == "none"

\* localStorage item 'lastFormSubmit': <<>> when the item is absent
\* (getItem gives null, which is falsy as the empty string is)
NoItem == <<>>

MessageElement == "form-message"

\* elements of the document that can carry the class 'error', in document
\* order: the controls of the form, then the shared message element
DocOrder == FieldNames \o <<MessageElement>>

\* a keydown listener that does not look at the tag of its target
IsTextareaNever(f) == FALSE

\* the controls on which Enter is handled (every control but the textarea)
IsTextarea(f) == f = "message"

\* value of a control after form.reset()
DefaultValue(f) == <<>>

NoFieldError == [text |-> "", error |-> FALSE]

showFieldError(ui, f, message) ==
    [ui EXCEPT ![f] = [text |-> message, error |-> TRUE]]

clearFieldError(ui, f) == [ui EXCEPT ![f] = NoFieldError]

\* a success path that leaves the displayed errors alone
clearNoFieldErrors(ui) == ui

clearAllFieldErrors(ui) == [f \in FieldSet |-> NoFieldError]

\* the global validateField(field) bound to blur: <<errors, fieldUI>> after
validateField(errs, ui, f, v) ==
    LET errs2 == ValidatorValidateField(errs, f, v) IN
    IF f \in DOMAIN errs2
    THEN <<errs2, showFieldError(ui, f, errs2[f])>>
    ELSE <<errs2, clearFieldError(ui, f)>>

HasErrorClass(el, ui, msg) ==
    IF el = MessageElement THEN msg.className = "form-message error"
    ELSE ui[el].error

\* the last element with class 'error' instead of the first
lastErrorField(ui, msg) ==
    LET hits == {i \in 1..Len(DocOrder) : HasErrorClass(DocOrder[i], ui, msg)}
    IN IF hits = {} THEN NoFocus
       ELSE DocOrder[CHOOSE i \in hits : \A j \in hits : i >= j]

\* document.querySelector('.error')
firstErrorField(ui, msg) ==
    LET hits == {i \in 1..Len(DocOrder) : HasErrorClass(DocOrder[i], ui, msg)}
    IN IF hits = {} THEN NoFocus
       ELSE DocOrder[CHOOSE i \in hits : \A j \in hits : i <= j]

\* displayValidationErrors, the part that shows the errors
showAllErrors(ui, errs) ==
    [f \in FieldSet |->
        IF f \in DOMAIN errs THEN [text |-> errs[f], error |-> TRUE]
        ELSE ui[f]]

\* element.focus() on el while control foc (or NoFocus) holds the focus:
\* the control that loses the focus gets a blur event, which runs
\* validateField on it; a non-focusable element ignores focus().
\* Result: <<errors, fieldUI, the element that holds the focus after>>
focusElement(errs, ui, foc, el, vals) ==
    IF el = NoFocus \/ el = MessageElement \/ el = foc
    THEN <<errs, ui, foc>>
    ELSE IF foc = NoFocus THEN <<errs, ui, el>>
    ELSE LET r == validateField(errs, ui, foc, vals[foc])
         IN <<r[1], r[2], el>>

\* displayValidationErrors(errors) while foc holds the focus:
\* <<errors, fieldUI, the element that holds the focus after>>
displayValidationErrors(errs, ui, foc, msg, vals) ==
    LET ui2 == showAllErrors(ui, errs)
    IN focusElement(errs, ui2, foc, firstErrorField(ui2, msg), vals)

HiddenMessage == [text |-> "", className |-> "form-message", display |-> FALSE]

MessageDuration(type) ==
    IF type = "success" THEN successMessageDuration ELSE errorMessageDuration

\* showFormMessage(message, type): <<formMessage, timers>> after
showFormMessage(tms, message, type, t) ==
    << [text |-> message, className |-> "form-message " \o type,
        display |-> TRUE],
       tms \cup {[due |-> t + MessageDuration(type), type |-> type]} >>

hideFormMessage == HiddenMessage

IdleButton ==
    [disabled |-> FALSE, loading |-> FALSE, btnText |-> TRUE,
     btnLoading |-> FALSE]

BusyButton ==
    [disabled |-> TRUE, loading |-> TRUE, btnText |-> FALSE,
     btnLoading |-> TRUE]

\* setSubmittingState whose else branch leaves the button disabled
setSubmittingStateStuck(submitting) ==
    IF submitting THEN BusyButton ELSE [IdleButton EXCEPT !.disabled = TRUE]

\* setSubmittingState(submitting): the button after
setSubmittingState(submitting) == IF submitting THEN BusyButton ELSE IdleButton

\* getFormData without trim()
getFormDataRaw(vals) == [f \in FieldSet |-> vals[f]]

\* getFormData(): the trimmed values of the controls
getFormData(vals) == [f \in FieldSet |-> Trim(vals[f])]

----------------------------------------------------------------------------
(* Values the user types *)

Samples(f) ==
    CASE f = "name" -> {<<>>, <<" ", "a", "a", " ">>}
      [] f = "email" -> {<<>>, <<"a", "@", "a", ".", "a">>}
      [] f = "subject" -> {<<>>, Rep("a", 5)}
      [] f = "message" -> {<<>>, Rep("a", 10) \o <<" ">>}

\* a value of field f that passes every rule
ValidSample(f) == CHOOSE v \in Samples(f) : v # <<>>

----------------------------------------------------------------------------
(* Observation of the run: what the last event was (the outcome of a      *)
(* handleFormSubmit call or of its resumption, "none" for any other       *)
(* event), the steps of the pipeline that call ran, the element that held *)
(* the focus after a call that moved it, the time of the last accepted    *)
(* submission and, for a call of checkRateLimit, the time elapsed since;  *)
(* for a call of the validator, the field validated, the value returned   *)
(* and the errors map the call found; for a keydown, where the keyboard   *)
(* is watched, its target.                                                *)
(* Which control holds the focus between events is not part of the state: *)
(* an event that depends on it takes the control as an input.             *)

Never == -1

\* nothing observed yet
NoHistory ==
    [outcome |-> "none", phases |-> <<>>, focused |-> NoFocus,
     lastAccepted |-> Never, elapsed |-> Never,
     field |-> NoFocus, result |-> TRUE, before |-> EmptyMap,
     keys |-> FALSE]

Observe(h, outcome, phases, foc) ==
    [h EXCEPT !.outcome = outcome, !.phases = phases, !.focused = foc,
              !.elapsed = Never, !.field = NoFocus]

\* the observation of a call of handleFormSubmit made by a keydown on
\* control target (NoFocus: made by a submit event); the target is
\* observed only where the keyboard is watched (h.keys)
ObserveSubmit(h, outcome, phases, foc, target) ==
    [Observe(h, outcome, phases, foc) EXCEPT
        !.field = IF h.keys THEN target ELSE NoFocus]

Other(h) == Observe(h, "none", <<>>, NoFocus)

TypeOK ==
    /\ fields \in [FieldSet -> UNION {Samples(f) : f \in FieldSet}]
    /\ DOMAIN errors \subseteq FieldSet
    /\ DOMAIN fieldUI = FieldSet
    /\ isSubmitting \in BOOLEAN
    /\ emailjsInitialized \in BOOLEAN
    /\ now \in Nat

FormInit ==
    /\ fields = [f \in FieldSet |-> DefaultValue(f)]
    /\ errors = EmptyMap
    /\ fieldUI = [f \in FieldSet |-> NoFieldError]
    /\ formMessage = HiddenMessage
    /\ submitBtn = IdleButton
    /\ isSubmitting = FALSE
    /\ emailjsInitialized \in BOOLEAN
    /\ inflight = <<>>
    /\ timers = {}
    /\ storage = NoItem
    /\ now = 0
    /\ history = NoHistory

Init ==
    /\ FormInit
    /\ PageInit
    /\ AnimationsLimited

----------------------------------------------------------------------------
(* User events on the controls *)

\* an 'input' event with no listener that clears the error of the control
InputKeepingError(f, v) ==
    /\ v # fields[f]
    /\ fields' = [fields EXCEPT ![f] = v]
    /\ history' = Other(history)
    /\ UNCHANGED <<pageVars, animVars>>
    /\ UNCHANGED <<errors, fieldUI, formMessage, submitBtn, isSubmitting,
                   emailjsInitialized, inflight, timers, storage, now>>

\* 'input' event on control f: the user changes its value to v
Input(f, v) ==
    /\ v # fields[f]
    /\ fields' = [fields EXCEPT ![f] = v]
    /\ fieldUI' = clearFieldError(fieldUI, f)
    /\ history' = Other(history)
    /\ UNCHANGED <<pageVars, animVars>>
    /\ UNCHANGED <<errors, formMessage, submitBtn, isSubmitting,
                   emailjsInitialized, inflight, timers, storage, now>>

\* 'blur' event on control f: the focus leaves it
Blur(f) ==
    /\ LET r == validateField(errors, fieldUI, f, fields[f]) IN
        /\ errors' = r[1]
        /\ fieldUI' = r[2]
    /\ history' = Other(history)
    /\ UNCHANGED <<pageVars, animVars>>
    /\ UNCHANGED <<fields, formMessage, submitBtn, isSubmitting,
                   emailjsInitialized, inflight, timers, storage, now>>

\* 'click' event with a target outside the form (the blur of the control
\* that held the focus is the event Blur): a displayed message is hidden
ClickOutside ==
    /\ formMessage' = IF formMessage.display THEN hideFormMessage
                      ELSE formMessage
    /\ history' = Other(history)
    /\ UNCHANGED <<pageVars, animVars>>
    /\ UNCHANGED <<fields, errors, fieldUI, submitBtn, isSubmitting,
                   emailjsInitialized, inflight, timers, storage, now>>

----------------------------------------------------------------------------
(* The rate limiter: pure part *)

Digits == <<"0", "1", "2", "3", "4", "5", "6", "7", "8", "9">>

\* Number.prototype.toString of a non-negative integer
RECURSIVE toString(_)
toString(n) ==
    IF n < 10 THEN <<Digits[n + 1]>>
    ELSE Append(toString(n \div 10), Digits[(n % 10) + 1])

DigitValue(c) == CHOOSE d \in 0..9 : Digits[d + 1] = c

\* parseInt of a non-empty string of decimal digits
RECURSIVE parseInt(_)
parseInt(str) ==
    IF Len(str) = 1 THEN DigitValue(str[1])
    ELSE 10 * parseInt(SubSeq(str, 1, Len(str) - 1))
         + DigitValue(str[Len(str)])

\* checkRateLimit with the window closed at its end (<= for <)
checkRateLimitInclusive(store, msg, tms, t) ==
    LET lastSubmit == store IN
    IF lastSubmit # NoItem /\ (t - parseInt(lastSubmit)) <= minInterval
    THEN LET m == showFormMessage(tms, RateLimitText, "error", t) IN
         [ok |-> FALSE, storage |-> store, formMessage |-> m[1],
          timers |-> m[2]]
    ELSE [ok |-> TRUE, storage |-> toString(t), formMessage |-> msg,
          timers |-> tms]

\* checkRateLimit storing the time of the attempt before it decides
checkRateLimitStamping(store, msg, tms, t) ==
    LET lastSubmit == store IN
    IF lastSubmit # NoItem /\ (t - parseInt(lastSubmit)) < minInterval
    THEN LET m == showFormMessage(tms, RateLimitText, "error", t) IN
         [ok |-> FALSE, storage |-> toString(t), formMessage |-> m[1],
          timers |-> m[2]]
    ELSE [ok |-> TRUE, storage |-> toString(t), formMessage |-> msg,
          timers |-> tms]

\* checkRateLimit() at time t:
\* [ok, storage, formMessage, timers] after the call
checkRateLimit(store, msg, tms, t) ==
    LET lastSubmit == store IN
    IF lastSubmit # NoItem /\ (t - parseInt(lastSubmit)) < minInterval
    THEN LET m == showFormMessage(tms, RateLimitText, "error", t) IN
         [ok |-> FALSE, storage |-> store, formMessage |-> m[1],
          timers |-> m[2]]
    ELSE [ok |-> TRUE, storage |-> toString(t), formMessage |-> msg,
          timers |-> tms]

----------------------------------------------------------------------------
(* The submission handler *)

\* handleSubmitSuccess that also persists the time of the success
handleSubmitSuccessPersisting(ui, tms, store, t) ==
    LET m == showFormMessage(tms, SuccessText, "success", t) IN
    << [f \in FieldSet |-> DefaultValue(f)],
       [f \in FieldSet |-> NoFieldError], m[1], m[2], toString(t) >>

\* handleSubmitSuccess():
\* <<fields, fieldUI, formMessage, timers, storage>> after
handleSubmitSuccess(ui, tms, store, t) ==
    LET m == showFormMessage(tms, SuccessText, "success", t) IN
    << [f \in FieldSet |-> DefaultValue(f)], clearAllFieldErrors(ui),
       m[1], m[2], store >>

\* handleSubmitError that resets the form as the success path does
handleSubmitErrorClearing(vals, ui, tms, store, message, t) ==
    LET m == showFormMessage(tms, message, "error", t) IN
    <<[f \in FieldSet |-> DefaultValue(f)], ui, m[1], m[2], store>>

\* handleSubmitError(message):
\* <<fields, fieldUI, formMessage, timers, storage>> after
handleSubmitError(vals, ui, tms, store, message, t) ==
    LET m == showFormMessage(tms, message, "error", t) IN
    <<vals, ui, m[1], m[2], store>>

\* a guard that lets every submit event through
SubmitNeverBlocked(flag) == FALSE

\* the guard of handleFormSubmit: if (isSubmitting) return
SubmitBlocked(flag) == flag

\* a handler that returns without releasing the flag
FlagKeptAfterCycle(flag) == flag

\* the finally clause of handleFormSubmit: setSubmittingState(false),
\* whatever the flag was
FlagAfterCycle(flag) == FALSE

\* sendEmail whose demo branch awaits no timer of its own
sendEmailUntimed(data, t) == [data |-> data, due |-> Never]

\* sendEmail(data) up to its await: the pending call.  In demo mode the
\* call settles when its 2000 ms timer fires, otherwise when emailjs.send
\* settles (due = Never: at any time)
sendEmail(data, t) ==
    [data |-> data,
     due |-> IF emailjsInitialized THEN Never ELSE t + demoDelay]

\* handleFormSubmit(e), from its entry to its return or to its await,
\* while control foc (or NoFocus) holds the focus
handleFormSubmit(foc) ==
    IF SubmitBlocked(isSubmitting)
    THEN /\ history' = ObserveSubmit(history, "noop", <<>>, NoFocus, foc)
         /\ UNCHANGED <<pageVars, animVars>>
         /\ UNCHANGED <<fields, errors, fieldUI, formMessage, submitBtn,
                        isSubmitting, emailjsInitialized, inflight, timers,
                        storage, now>>
    ELSE IF ~validateFormResult(fields)
    THEN \* validation failed: show the errors, return through finally
         /\ LET r == displayValidationErrors(validateFormErrors(fields),
                         fieldUI, foc, formMessage, fields) IN
             /\ errors' = r[1]
             /\ fieldUI' = r[2]
             /\ history' = ObserveSubmit(history, "invalid",
                               <<"validateForm", "displayValidationErrors">>,
                               r[3], foc)
         /\ isSubmitting' = FlagAfterCycle(isSubmitting)
         /\ submitBtn' = setSubmittingState(isSubmitting')
         /\ UNCHANGED <<pageVars, animVars>>
         /\ UNCHANGED <<fields, formMessage, emailjsInitialized, inflight,
                        timers, storage, now>>
    ELSE \E formDataThrows \in BOOLEAN :
         IF formDataThrows
         THEN \* getFormData throws (a control is missing from the
              \* FormData): catch, handleSubmitError, finally
              /\ errors' = validateFormErrors(fields)
              /\ LET r == handleSubmitError(fields, fieldUI, timers, storage,
                                            UnexpectedText, now) IN
                  /\ fields' = r[1]
                  /\ fieldUI' = r[2]
                  /\ formMessage' = r[3]
                  /\ timers' = r[4]
                  /\ storage' = r[5]
              /\ isSubmitting' = FlagAfterCycle(TRUE)
              /\ submitBtn' = setSubmittingState(isSubmitting')
              /\ history' = ObserveSubmit(history, "threw",
                                <<"validateForm", "setSubmittingState",
                                  "getFormData", "handleSubmitError">>,
                                NoFocus, foc)
              /\ UNCHANGED <<pageVars, animVars>>
              /\ UNCHANGED <<emailjsInitialized, inflight, now>>
         ELSE \* setSubmittingState(true), getFormData, await sendEmail
              /\ Len(inflight) < MaxInflight
              /\ errors' = validateFormErrors(fields)
              /\ isSubmitting' = TRUE
              /\ submitBtn' = setSubmittingState(TRUE)
              /\ inflight' = Append(inflight,
                                    sendEmail(getFormData(fields), now))
              /\ history' = ObserveSubmit(history, "sending",
                                <<"validateForm", "setSubmittingState",
                                  "getFormData", "sendEmail">>, NoFocus,
                                foc)
              /\ UNCHANGED <<pageVars, animVars>>
              /\ UNCHANGED <<fields, fieldUI, formMessage,
                             emailjsInitialized, timers, storage, now>>

\* 'submit' event of the form, from a click on the submit button: no
\* control holds the focus (Enter in a control goes through EnterKey, which
\* prevents the implicit submission)
Submit == handleFormSubmit(NoFocus)

\* 'keydown' with key Enter whose target is control f
EnterKey(f) ==
    IF ~IsTextarea(f) /\ ~isSubmitting
    THEN handleFormSubmit(f)
    ELSE /\ history' = ObserveSubmit(history, "noop", <<>>, NoFocus, f)
         /\ UNCHANGED <<pageVars, animVars>>
         /\ UNCHANGED <<fields, errors, fieldUI, formMessage, submitBtn,
                        isSubmitting, emailjsInitialized, inflight, timers,
                        storage, now>>

RemoveAt(q, i) == SubSeq(q, 1, i - 1) \o SubSeq(q, i + 1, Len(q))

\* the pending send call i settles and its handleFormSubmit resumes:
\* handleSubmitSuccess or handleSubmitError, then finally
SendSettles(i, resolved) ==
    /\ i \in 1..Len(inflight)
    /\ inflight[i].due # Never => resolved
    /\ LET r == IF resolved
                THEN handleSubmitSuccess(fieldUI, timers, storage, now)
                ELSE handleSubmitError(fields, fieldUI, timers, storage,
                                       SendErrorText, now) IN
        /\ fields' = r[1]
        /\ fieldUI' = r[2]
        /\ formMessage' = r[3]
        /\ timers' = r[4]
        /\ storage' = r[5]
    /\ inflight' = RemoveAt(inflight, i)
    /\ isSubmitting' = FlagAfterCycle(isSubmitting)
    /\ submitBtn' = setSubmittingState(isSubmitting')
    /\ history' = [Observe(history,
                           IF resolved THEN "success" ELSE "failure",
                           IF resolved THEN <<"handleSubmitSuccess">>
                           ELSE <<"handleSubmitError">>, NoFocus)
                   EXCEPT !.lastAccepted =
                       IF resolved THEN now ELSE history.lastAccepted]
    /\ UNCHANGED <<pageVars, animVars>>
    /\ UNCHANGED <<errors, emailjsInitialized, now>>

----------------------------------------------------------------------------
(* Timers *)

\* an auto-dismiss timer fires: hideFormMessage()
TimerFires(tm) ==
    /\ tm \in timers
    /\ timers' = timers \ {tm}
    /\ formMessage' = hideFormMessage
    /\ history' = Other(history)
    /\ UNCHANGED <<pageVars, animVars>>
    /\ UNCHANGED <<fields, errors, fieldUI, submitBtn, isSubmitting,
                   emailjsInitialized, inflight, storage, now>>

(***************************************************************************)
(* The form with the clock abstracted away: a pending timer may fire and   *)
(* a pending send may settle at any moment.                                *)
(***************************************************************************)
Next ==
    \/ \E f \in FieldSet : \E v \in Samples(f) : Input(f, v)
    \/ \E f \in FieldSet : Blur(f)
    \/ ClickOutside
    \/ Submit
    \/ \E f \in FieldSet : EnterKey(f)
    \/ \E i \in 1..MaxInflight : \E resolved \in BOOLEAN :
          SendSettles(i, resolved)
    \/ \E tm \in timers : TimerFires(tm)

Spec == Init /\ [][Next]_vars

----------------------------------------------------------------------------
(* The rate limiter: calls *)

\* a call of checkRateLimit()
CheckRateLimit ==
    LET r == checkRateLimit(storage, formMessage, timers, now) IN
    /\ storage' = r.storage
    /\ formMessage' = r.formMessage
    /\ timers' = r.timers
    /\ history' = [history EXCEPT
          !.outcome = IF r.ok THEN "admitted" ELSE "rejected",
          !.phases = <<"checkRateLimit">>,
          !.focused = NoFocus,
          !.elapsed = IF history.lastAccepted = Never THEN Never
                      ELSE now - history.lastAccepted,
          !.lastAccepted = IF r.ok THEN now ELSE history.lastAccepted]
    /\ UNCHANGED <<pageVars, animVars>>
    /\ UNCHANGED <<fields, errors, fieldUI, submitBtn, isSubmitting,
                   emailjsInitialized, inflight, now>>

\* the time that passes between two events
WaitSteps == {minInterval - 1, minInterval, minInterval + 1}

Wait(d) ==
    /\ now + d <= MaxRateNow
    /\ now' = now + d
    /\ history' = Other(history)
    /\ UNCHANGED <<pageVars, animVars>>
    /\ UNCHANGED <<fields, errors, fieldUI, formMessage, submitBtn,
                   isSubmitting, emailjsInitialized, inflight, timers,
                   storage>>

\* an auto-dismiss timer fires when it is due
TimerDue(tm) ==
    /\ tm \in timers
    /\ now >= tm.due
    /\ TimerFires(tm)

InitRate ==
    /\ fields = [f \in FieldSet |-> DefaultValue(f)]
    /\ errors = EmptyMap
    /\ fieldUI = [f \in FieldSet |-> NoFieldError]
    /\ formMessage = HiddenMessage
    /\ submitBtn = IdleButton
    /\ isSubmitting = FALSE
    /\ emailjsInitialized \in BOOLEAN
    /\ inflight = <<>>
    /\ timers = {}
    /\ storage = NoItem
    /\ now \in 0..MaxStart
    /\ history = NoHistory
    /\ PageInit
    /\ AnimationsLimited

NextRate ==
    \/ CheckRateLimit
    \/ \E d \in WaitSteps : Wait(d)
    \/ \E tm \in timers : TimerDue(tm)

(***************************************************************************)
(* checkRateLimit called at arbitrary instants of a page's life            *)
(***************************************************************************)
SpecRate == InitRate /\ [][NextRate]_vars

----------------------------------------------------------------------------
(* The form with its clock *)

\* whether a timer callback is ready to run now: an auto-dismiss timer or
\* the timer of a demo send
SomethingDue ==
    \/ \E tm \in timers : tm.due <= now
    \/ \E i \in 1..Len(inflight) :
          inflight[i].due # Never /\ inflight[i].due <= now

\* TickLen ms pass; the callbacks that are due run before the clock moves on
Tick ==
    /\ ~SomethingDue
    /\ now + TickLen <= MaxNow
    /\ now' = now + TickLen
    /\ history' = Other(history)
    /\ UNCHANGED <<pageVars, animVars>>
    /\ UNCHANGED <<fields, errors, fieldUI, formMessage, submitBtn,
                   isSubmitting, emailjsInitialized, inflight, timers,
                   storage>>

\* the pending send call i settles: a demo send when its timer is due and
\* always successfully, a real send at any time and either way
SendDue(i, resolved) ==
    /\ i \in 1..Len(inflight)
    /\ inflight[i].due # Never => now >= inflight[i].due
    /\ SendSettles(i, resolved)

\* a submit event early enough for its send to settle before the clock of
\* the model stops, while fewer than MaxTimers messages are pending or
\* about to be shown
SubmitTimed ==
    /\ now + demoDelay <= MaxNow
    /\ Cardinality(timers) + Len(inflight) < MaxTimers
    /\ Submit

\* the user fills the form from its first control to its last: an 'input'
\* event that gives control number k a valid value once the controls
\* before it are filled
Fill(k) ==
    /\ \A j \in 1..(k - 1) : fields[FieldNames[j]] # DefaultValue(FieldNames[j])
    /\ Input(FieldNames[k], ValidSample(FieldNames[k]))

NextTimed ==
    \/ \E k \in 1..Len(FieldNames) : Fill(k)
    \/ ClickOutside
    \/ SubmitTimed
    \/ \E i \in 1..MaxInflight : \E resolved \in BOOLEAN :
          SendDue(i, resolved)
    \/ \E tm \in timers : TimerDue(tm)
    \/ Tick

(***************************************************************************)
(* The form with Date.now(): timers fire and demo sends settle when they   *)
(* are due.  The event loop runs every callback that is due and the clock  *)
(* advances.                                                               *)
(***************************************************************************)
SpecTimed ==
    /\ Init
    /\ [][NextTimed]_vars
    /\ WF_vars(Tick)
    /\ WF_vars(\E tm \in timers : TimerDue(tm))
    /\ WF_vars(\E i \in 1..MaxInflight : SendDue(i, TRUE))

----------------------------------------------------------------------------
(* The form and its keyboard *)

InitKeys ==
    /\ fields = [f \in FieldSet |-> DefaultValue(f)]
    /\ errors = EmptyMap
    /\ fieldUI = [f \in FieldSet |-> NoFieldError]
    /\ formMessage = HiddenMessage
    /\ submitBtn = IdleButton
    /\ isSubmitting = FALSE
    /\ emailjsInitialized \in BOOLEAN
    /\ inflight = <<>>
    /\ timers = {}
    /\ storage = NoItem
    /\ now = 0
    /\ history = [NoHistory EXCEPT !.keys = TRUE]
    /\ PageInit
    /\ AnimationsLimited

NextKeys ==
    \/ \E f \in FieldSet : \E v \in Samples(f) : Input(f, v)
    \/ Submit
    \/ \E f \in FieldSet : EnterKey(f)
    \/ \E i \in 1..MaxInflight : \E resolved \in BOOLEAN :
          SendSettles(i, resolved)

(***************************************************************************)
(* The form driven from the keyboard and the submit button, the target of  *)
(* each keydown being observed                                             *)
(***************************************************************************)
SpecKeys == InitKeys /\ [][NextKeys]_vars

----------------------------------------------------------------------------
(* The validator: calls *)

\* v surrounded by whitespace
Pad(v) == <<" ">> \o v \o <<" ">>

\* the lengths on either side of the length rules of field f
BoundaryLengths(f) ==
    IF minLength(f) = NoRule THEN {}
    ELSE {minLength(f) - 1, minLength(f), maxLength(f), maxLength(f) + 1}

\* values of field f before padding: the empty value, values of letters
\* at the boundary lengths, and for the fields with a pattern values that
\* break it at those lengths
TestCores(f) ==
    {<<>>}
    \cup {Rep("a", n) : n \in BoundaryLengths(f)}
    \cup ( CASE f = "name" ->
                {Rep("1", n) : n \in BoundaryLengths(f)}
                \cup {<<"a", " ", "a">>, <<"a", "1">>}
             [] f = "email" ->
                { <<"a", "@", "a", ".", "a">>,
                  <<"a", "@", "a", ".", "a", ".", "a">>,
                  <<"a", "@", "a">>,
                  <<"a", ".", "a">>,
                  <<"@", "a", ".", "a">>,
                  <<"a", "@", ".", "a">>,
                  <<"a", " ", "@", "a", ".", "a">>,
                  <<"a", "@", "a", ".", "a", "@", "a">> }
             [] OTHER -> {} )

TestValues(f) == TestCores(f) \cup {Pad(c) : c \in TestCores(f)}

\* the errors map left by earlier validations that found the fields of S
\* empty
EarlierErrors(S) == [g \in S |-> errorMessages(g, "required")]

\* formValidator.validateField(field) on control f
ValidateFieldCall(f) ==
    /\ errors' = ValidatorValidateField(errors, f, fields[f])
    /\ history' = [Other(history) EXCEPT
          !.outcome = "validateField",
          !.field = f,
          !.result = FieldIsValid(f, fields[f]),
          !.before = errors]
    /\ UNCHANGED <<pageVars, animVars>>
    /\ UNCHANGED <<fields, fieldUI, formMessage, submitBtn, isSubmitting,
                   emailjsInitialized, inflight, timers, storage, now>>

\* formValidator.validateForm(); the observation tells a call that follows
\* another call of validateForm from a first call
ValidateFormCall ==
    LET r == validateForm(errors, fields) IN
    /\ errors' = r.errors
    /\ history' = [Other(history) EXCEPT
          !.outcome = IF history.outcome \in {"validateForm",
                                              "validateFormAgain"}
                      THEN "validateFormAgain" ELSE "validateForm",
          !.field = NoFocus,
          !.result = r.isValid,
          !.before = errors]
    /\ UNCHANGED <<pageVars, animVars>>
    /\ UNCHANGED <<fields, fieldUI, formMessage, submitBtn, isSubmitting,
                   emailjsInitialized, inflight, timers, storage, now>>

\* one control holds a test value, the others are empty or valid; the
\* errors map holds what earlier validations of empty controls left
InitValidator ==
    /\ \E f \in FieldSet : \E v \in TestValues(f) :
       \E filled \in SUBSET (FieldSet \ {f}) :
          fields = [g \in FieldSet |->
                       IF g = f THEN v
                       ELSE IF g \in filled THEN ValidSample(g)
                       ELSE DefaultValue(g)]
    /\ \E S \in SUBSET FieldSet : errors = EarlierErrors(S)
    /\ fieldUI = [f \in FieldSet |-> NoFieldError]
    /\ formMessage = HiddenMessage
    /\ submitBtn = IdleButton
    /\ isSubmitting = FALSE
    /\ emailjsInitialized = FALSE
    /\ inflight = <<>>
    /\ timers = {}
    /\ storage = NoItem
    /\ now = 0
    /\ history = NoHistory
    /\ PageInit
    /\ AnimationsLimited

NextValidator ==
    \/ \E f \in FieldSet : ValidateFieldCall(f)
    \/ ValidateFormCall

(***************************************************************************)
(* The validator called on arbitrary values of the controls                *)
(***************************************************************************)
SpecValidator == InitValidator /\ [][NextValidator]_vars

----------------------------------------------------------------------------
(* The page: specifications *)

NextModal ==
    \/ ClickHamburger
    \/ ClickViewProject
    \/ \E target \in {"modal-close", "modal"} : ClickClose(target)
    \/ KeyEscape
    \/ ClickElsewhere
    \/ \E i \in 1..MaxPageTimers : PageTimerFires(i)
    \/ PageTick

(***************************************************************************)
(* The mobile menu and the project modal                                   *)
(***************************************************************************)
SpecModal == Init /\ [][NextModal]_vars

NextFilter ==
    \/ \E filter \in Filters : FilterClick(filter)
    \/ \E i \in 1..MaxFilterTimers : PageTimerFires(i)
    \/ PageTick

(***************************************************************************)
(* The project filters                                                     *)
(***************************************************************************)
SpecFilter == Init /\ [][NextFilter]_vars

NextThrottle ==
    \/ ScrollEvent
    \/ PageTimerFires(1)
    \/ PageTick

(***************************************************************************)
(* The scroll listener of the navigation                                   *)
(***************************************************************************)
SpecThrottle == Init /\ [][NextThrottle]_vars

----------------------------------------------------------------------------
(* The animations: specifications *)

InitAnimations ==
    /\ FormInit
    /\ PageInit
    /\ \E reduced \in BOOLEAN : AnimLoaded(reduced)

NextAnimations ==
    \/ VisibilityChange
    \/ MotionPreferenceChange
    \/ \E i \in 1..MaxTypeTimers : TypeTimerFires(i)
    \/ AnimTick

(***************************************************************************)
(* The animations of a page that is hidden and shown and whose motion      *)
(* preference changes                                                      *)
(***************************************************************************)
SpecAnimations == InitAnimations /\ [][NextAnimations]_vars

InitTypewriter ==
    /\ FormInit
    /\ PageInit
    /\ AnimLoaded(FALSE)

NextTypewriter ==
    \/ TypeTimerFires(1)
    \/ AnimTick

(***************************************************************************)
(* The typewriter left to itself: no pause, no resume.  The event loop     *)
(* runs every callback that is due and the clock advances.                 *)
(***************************************************************************)
SpecTypewriter ==
    /\ InitTypewriter
    /\ [][NextTypewriter]_vars
    /\ WF_vars(TypeTimerFires(1))
    /\ WF_vars(AnimTick)

----------------------------------------------------------------------------
(* Properties *)

\* the state of the program apart from the observation
program == <<fields, errors, fieldUI, formMessage, submitBtn, isSubmitting,
             emailjsInitialized, inflight, timers, storage, now>>

\* outcomes recorded by a submit event (form submit or Enter key)
SubmitOutcomes == {"noop", "invalid", "threw", "sending"}

\* C1: a submit event (form submit or Enter key) that arrives while
\* isSubmitting is true is a no-op: it validates nothing, changes no state
\* and sends nothing; so at most one send call is pending at any time.
C1_SubmitWhileSubmittingIsNoOp ==
    /\ [](Len(inflight) <= 1)
    /\ [][(isSubmitting /\ history'.outcome \in SubmitOutcomes)
            => (history'.outcome = "noop" /\ UNCHANGED program)]_vars

C1_Witness ==
    /\ history.outcome = "noop"
    /\ isSubmitting
    /\ Len(inflight) = 1

\* C2: after every completed submit cycle (validation failed, the pipeline
\* threw, the send resolved or the send rejected) isSubmitting is false.
C2_FlagReleasedAfterCycle ==
    history.outcome \in {"invalid", "threw", "success", "failure"}
        => (~isSubmitting /\ ~submitBtn.disabled)

C2_Witness ==
    /\ history.outcome = "threw"
    /\ ~isSubmitting
    /\ formMessage.text = UnexpectedText

\* C3 (as claimed): a submit whose fields all pass validation, issued less
\* than 60000 ms after the last accepted submission, shows the throttling
\* message, makes no send call and never sets the in-flight flag.
C3_ThrottledSubmitSendsNothing ==
    ( /\ history.outcome \in {"sending", "threw"}
      /\ history.lastAccepted # Never
      /\ now - history.lastAccepted < minInterval )
    => ( /\ inflight = <<>>
         /\ ~isSubmitting
         /\ formMessage.text = RateLimitText
         /\ \A i \in 1..Len(history.phases) :
               history.phases[i] # "setSubmittingState" )

\* C4 (as claimed): every send call is preceded, in the same submit cycle,
\* by validateForm and then by a rate-limit check that admitted the attempt.
C4_SendAfterValidationAndRateCheck ==
    history.outcome = "sending"
    => \E i, j, k \in 1..Len(history.phases) :
          /\ i < j /\ j < k
          /\ history.phases[i] = "validateForm"
          /\ history.phases[j] = "checkRateLimit"
          /\ history.phases[k] = "sendEmail"

\* C5: checkRateLimit rejects an attempt exactly when a stored timestamp T
\* exists and now - T < 60000 (T + 59999 rejected, T + 60000 and T + 60001
\* admitted, no stored timestamp: admitted); the stored timestamp is the
\* time of the last admitted attempt.
C5_RateLimitWindow ==
    /\ history.outcome \in {"admitted", "rejected"}
        => ( history.outcome = "rejected"
             <=> (history.elapsed # Never /\ history.elapsed < minInterval) )
    /\ (storage = NoItem) <=> (history.lastAccepted = Never)
    /\ storage # NoItem => storage = toString(history.lastAccepted)

C5_Witness ==
    /\ history.outcome = "admitted"
    /\ history.elapsed = minInterval

\* C6: a rejection by checkRateLimit changes nothing but the displayed
\* message (and its timer): the stored timestamp, the in-flight flag, the
\* field values and the Validation Result are unchanged.
C6_RejectionChangesOnlyMessage ==
    [][history'.outcome = "rejected"
        => /\ UNCHANGED <<storage, isSubmitting, fields, errors>>
           /\ formMessage'.text = RateLimitText]_vars

C6_Witness ==
    /\ history.outcome = "rejected"
    /\ history.elapsed = minInterval - 1
    /\ storage = toString(now - history.elapsed)

C8_SuccessClearsForm ==
    history.outcome = "success"
    => /\ \A f \in FieldSet : fields[f] = <<>>
       /\ \A f \in FieldSet : fieldUI[f] = NoFieldError
       /\ formMessage = [text |-> SuccessText,
                         className |-> "form-message success",
                         display |-> TRUE]

\* a success reached after a field was blurred with a failing value
C8_Witness ==
    /\ history.outcome = "success"
    /\ DOMAIN errors # {}

\* C9: when the send rejects, the generic error message is displayed, the
\* field values are left as the user had them and the call is not retried.
C9_FailureKeepsFields ==
    /\ [](history.outcome = "failure"
            => /\ formMessage = [text |-> SendErrorText,
                                 className |-> "form-message error",
                                 display |-> TRUE]
               /\ inflight = <<>>)
    /\ [][history'.outcome = "failure" => fields' = fields]_vars

C9_Witness ==
    /\ history.outcome = "failure"
    /\ validateFormResult(fields)

\* the first control, in form order, whose value fails validation
FirstFailing(vals) ==
    LET bad == {i \in 1..Len(FieldNames) :
                   ~FieldIsValid(FieldNames[i], vals[FieldNames[i]])}
    IN FieldNames[CHOOSE i \in bad : \A j \in bad : i <= j]

\* C10: when validateForm fails at submit time the in-flight flag is not set
\* and nothing is sent; every failing field shows its message inline and
\* the focus moves to the first failing field in form order.
C10_InvalidSubmitShowsErrors ==
    history.outcome = "invalid"
    => /\ ~isSubmitting
       /\ inflight = <<>>
       /\ \A i \in 1..Len(history.phases) :
             history.phases[i] \notin {"setSubmittingState", "sendEmail"}
       /\ \A f \in FieldSet :
             ~FieldIsValid(f, fields[f])
             => fieldUI[f] =
                  [text |-> errorMessages(f, ViolationKind(f, fields[f])),
                   error |-> TRUE]
       /\ history.focused = FirstFailing(fields)

\* an invalid submit while the error message is displayed, whose first
\* failing control is not the first control of the form
C10_Witness ==
    /\ history.outcome = "invalid"
    /\ FieldIsValid("name", fields["name"])
    /\ ~FieldIsValid("email", fields["email"])
    /\ ~FieldIsValid("message", fields["message"])
    /\ formMessage.className = "form-message error"

----------------------------------------------------------------------------
(* Properties of the validator *)

RuleOrder == <<"required", "minLength", "maxLength", "pattern">>

\* whether the trimmed value breaks the rule of that kind of field f
Violates(kind, f, value) ==
    CASE kind = "required" -> value = <<>>
      [] kind = "minLength" ->
            minLength(f) # NoRule /\ Len(value) < minLength(f)
      [] kind = "maxLength" ->
            maxLength(f) # NoRule /\ Len(value) > maxLength(f)
      [] kind = "pattern" -> HasPattern(f) /\ ~PatternTest(f, value)

\* the first rule, in the order of RuleOrder, that value v of f breaks
FirstViolated(f, v) ==
    LET bad == {k \in 1..Len(RuleOrder) : Violates(RuleOrder[k], f, Trim(v))}
    IN IF bad = {} THEN "ok"
       ELSE RuleOrder[CHOOSE k \in bad : \A j \in bad : k <= j]

\* the fields the last call of the validator validated
Validated ==
    IF history.outcome = "validateField" THEN {history.field}
    ELSE IF history.outcome \in {"validateForm", "validateFormAgain"}
         THEN FieldSet
    ELSE {}

\* C11: validateField reports exactly one violation per failing field, that
\* of the first violated rule in the order required > minLength > maxLength
\* > pattern, and stores no entry for a field that breaks no rule.
C11_FirstViolatedRuleReported ==
    /\ \A f \in Validated :
          LET kind == FirstViolated(f, fields[f]) IN
          IF kind = "ok" THEN f \notin DOMAIN errors
          ELSE f \in DOMAIN errors /\ errors[f] = errorMessages(f, kind)
    /\ history.outcome = "validateField"
        => (history.result <=> FirstViolated(history.field,
                                             fields[history.field]) = "ok")

\* a too-short name that also breaks the pattern reports minLength
C11_Witness ==
    /\ history.outcome = "validateField"
    /\ history.field = "name"
    /\ Trim(fields["name"]) = <<"1">>
    /\ errors["name"] = errorMessages("name", "minLength")

\* C12: validateField gives the same outcome for a value, for the value
\* trimmed and for the value surrounded by whitespace; a value of
\* whitespace only fails with kind required.
C12_TrimBeforeChecks ==
    history.outcome = "validateField"
    => LET f == history.field
           v == fields[f] IN
       /\ ValidatorValidateField(errors, f, Pad(v)) = errors
       /\ ValidatorValidateField(errors, f, Trim(v)) = errors
       /\ FieldIsValid(f, Pad(v)) = history.result
       /\ FieldIsValid(f, Trim(v)) = history.result
       /\ (\A i \in 1..Len(v) : IsSpace(v[i]))
            => ( /\ f \in DOMAIN errors
                 /\ errors[f] = errorMessages(f, "required") )

\* " aa " passes as a name, whose minLength is 2
C12_Witness ==
    /\ history.outcome = "validateField"
    /\ history.field = "name"
    /\ fields["name"] = <<" ", "a", "a", " ">>
    /\ history.result
    /\ "name" \notin DOMAIN errors

LengthMessages(f) ==
    {errorMessages(f, "minLength"), errorMessages(f, "maxLength")}

\* C13: minLength and maxLength are inclusive bounds on the trimmed
\* length: a value of length minLength or maxLength passes the length
\* checks, one of length minLength - 1 fails with kind minLength and one of
\* length maxLength + 1 fails with kind maxLength.
C13_InclusiveLengthBounds ==
    history.outcome = "validateField" /\ minLength(history.field) # NoRule
    => LET f == history.field
           n == Len(Trim(fields[f])) IN
       /\ n = minLength(f) - 1
            => (f \in DOMAIN errors
                /\ errors[f] = errorMessages(f, "minLength"))
       /\ n = maxLength(f) + 1
            => (f \in DOMAIN errors
                /\ errors[f] = errorMessages(f, "maxLength"))
       /\ n \in {minLength(f), maxLength(f)}
            => (f \in DOMAIN errors => errors[f] \notin LengthMessages(f))
       /\ (n \in {minLength(f), maxLength(f)} /\ ~HasPattern(f))
            => history.result

\* a message of exactly 1000 characters after trimming passes
C13_Witness ==
    /\ history.outcome = "validateField"
    /\ history.field = "message"
    /\ Len(Trim(fields["message"])) = maxLength("message")
    /\ Len(fields["message"]) > maxLength("message")
    /\ history.result

\* C14: validateForm returns true iff no field fails, and the errors map it
\* leaves holds an entry for exactly the fields whose current value fails,
\* whatever the map held before the call.
C14_ValidateFormRederives ==
    history.outcome \in {"validateForm", "validateFormAgain"}
    => /\ history.result
            <=> (\A f \in FieldSet : FirstViolated(f, fields[f]) = "ok")
       /\ DOMAIN errors
            = {f \in FieldSet : FirstViolated(f, fields[f]) # "ok"}

\* a first call that found an entry for a field that now passes and no
\* entry for a field that now fails
C14_Witness ==
    /\ history.outcome = "validateForm"
    /\ \E f \in DOMAIN history.before : f \notin DOMAIN errors
    /\ \E f \in DOMAIN errors : f \notin DOMAIN history.before
    /\ ~history.result

\* C15: a call of validateForm that follows another with no change of a
\* field in between returns the same value and leaves the same errors map.
C15_ValidateFormIdempotent ==
    [][history'.outcome = "validateFormAgain"
        => (errors' = errors /\ history'.result = history.result)]_vars

C15_Witness ==
    /\ history.outcome = "validateFormAgain"
    /\ history.before = errors
    /\ DOMAIN errors # {}
    /\ ~history.result

\* C16: validateField on one field removes the prior entry of that field,
\* inserts its new failure if any and leaves the entries of all other
\* fields unchanged.
C16_ValidateFieldTouchesOneEntry ==
    history.outcome = "validateField"
    => LET f == history.field IN
       /\ \A g \in FieldSet \ {f} :
             /\ g \in DOMAIN errors <=> g \in DOMAIN history.before
             /\ g \in DOMAIN errors => errors[g] = history.before[g]
       /\ f \in DOMAIN errors <=> ~history.result
       /\ f \in DOMAIN errors
            => errors[f] = errorMessages(f, FirstViolated(f, fields[f]))

\* a valid email validated while it and two other fields had entries
C16_Witness ==
    /\ history.outcome = "validateField"
    /\ history.field = "email"
    /\ "email" \in DOMAIN history.before
    /\ "email" \notin DOMAIN errors
    /\ {"name", "message"} \subseteq DOMAIN errors

----------------------------------------------------------------------------
(* Properties of the timed form *)

\* the fields are cleared, the success message is displayed and the
\* in-flight flag is released
Succeeded ==
    /\ history.outcome = "success"
    /\ ~isSubmitting
    /\ \A f \in FieldSet : fields[f] = <<>>
    /\ formMessage.display
    /\ formMessage.text = SuccessText

\* C17: in demo mode the send of a valid submission is due 2000 ms after the
\* submit, settles then and successfully, and every such submission
\* eventually reaches Success: success message shown, fields cleared,
\* in-flight flag false.
C17_DemoSubmitSucceeds ==
    /\ [][(~emailjsInitialized /\ history'.outcome = "sending")
            => inflight'[Len(inflight')].due = now + demoDelay]_vars
    /\ [][(~emailjsInitialized /\ Len(inflight') < Len(inflight))
            => (history'.outcome = "success" /\ now = inflight[1].due)]_vars
    /\ (~emailjsInitialized /\ isSubmitting) ~> Succeeded

C17_Witness ==
    /\ ~emailjsInitialized
    /\ Succeeded
    /\ now = demoDelay

\* type of the displayed message
MessageType(msg) ==
    IF msg.className = "form-message success" THEN "success" ELSE "error"

\* the auto-dismiss timer set when the displayed message was shown: the
\* latest due of the pending timers of its type
OwnTimer(msg, tms) ==
    LET same == {tm \in tms : tm.type = MessageType(msg)}
    IN CHOOSE tm \in same : \A other \in same : tm.due >= other.due

\* C18 (as claimed): when the auto-dismiss timer of an earlier message
\* fires while a newer message is displayed, the displayed message is
\* neither hidden nor altered.
C18_StaleTimerIsNoOp ==
    [][\A tm \in timers :
          ( /\ timers' = timers \ {tm}
            /\ formMessage.display
            /\ tm # OwnTimer(formMessage, timers) )
          => formMessage' = formMessage]_vars

\* C19 (as claimed): a displayed message that no newer message replaces
\* and no click outside the form dismisses stays displayed until its own
\* duration (5000 ms for success, 7000 ms for error) has passed: no timer
\* hides it earlier, and it is not displayed any longer.
C19_MessageStaysItsDuration ==
    /\ [][( /\ formMessage.display
            /\ ~formMessage'.display
            /\ timers' # timers )
          => now >= OwnTimer(formMessage, timers).due]_vars
    /\ [](formMessage.display
            => now <= OwnTimer(formMessage, timers).due)

----------------------------------------------------------------------------
(* Properties of the submit button *)

\* C20: in every reachable state the submit button is disabled and shows
\* the busy indicator exactly when isSubmitting is true, and is enabled and
\* shows the idle label exactly when isSubmitting is false.
C20_ButtonMirrorsFlag ==
    /\ isSubmitting
        <=> (submitBtn.disabled /\ submitBtn.loading /\ submitBtn.btnLoading)
    /\ ~isSubmitting <=> (~submitBtn.disabled /\ submitBtn.btnText)
    /\ submitBtn.btnText <=> ~submitBtn.btnLoading

\* the button while a send is pending
C20_Witness ==
    /\ isSubmitting
    /\ Len(inflight) = 1
    /\ submitBtn.disabled
    /\ submitBtn.btnLoading

----------------------------------------------------------------------------
(* Properties of a pending send *)

\* C21: while a send call is pending the in-flight flag stays true and the
\* submit button stays disabled: no step other than the settling of that
\* send clears the flag, re-enables the button or touches the pending call.
C21_FlagHeldWhilePending ==
    [][(isSubmitting /\ inflight # <<>> /\ Len(inflight') >= Len(inflight))
        => ( /\ isSubmitting'
             /\ submitBtn'.disabled
             /\ SubSeq(inflight', 1, Len(inflight)) = inflight )]_vars

\* a send is pending, the user has emptied a control meanwhile and the
\* last event was a submit, which was ignored
C21_Witness ==
    /\ isSubmitting
    /\ Len(inflight) = 1
    /\ history.outcome = "noop"
    /\ ~validateFormResult(fields)
    /\ submitBtn.disabled

\* C22: the payload of every send call is made of the trimmed values of
\* the controls at the time of the submit, which validateForm accepted in
\* that cycle: every pending payload satisfies every rule, and no edit of a
\* control changes a pending payload.
C22_PayloadIsValidatedValues ==
    /\ [](\A i \in 1..Len(inflight) : \A f \in FieldSet :
             /\ FirstViolated(f, inflight[i].data[f]) = "ok"
             /\ inflight[i].data[f] = Trim(inflight[i].data[f]))
    /\ [][history'.outcome = "sending"
            => /\ validateFormResult(fields)
               /\ inflight'[Len(inflight')].data
                    = [f \in FieldSet |-> Trim(fields[f])]]_vars
    /\ [][fields' # fields /\ Len(inflight') = Len(inflight)
            => inflight' = inflight]_vars

\* a payload whose message was typed with a trailing space and whose
\* controls the user has emptied while the send is pending
C22_Witness ==
    /\ Len(inflight) = 1
    /\ inflight[1].data["message"] = Rep("a", 10)
    /\ inflight[1].data["name"] = <<"a", "a">>
    /\ fields["message"] = <<>>
    /\ fields["name"] = <<>>

----------------------------------------------------------------------------
(* Properties of the inline errors *)

\* C24: whenever a control displays an inline error its current trimmed
\* value breaks one of its rules.
C24_DisplayedErrorMeansFailingValue ==
    \A f \in FieldSet :
        fieldUI[f].error => FirstViolated(f, fields[f]) # "ok"

\* an error displayed by a blur next to a control whose error an input
\* event has cleared
C24_Witness ==
    /\ fieldUI["email"].error
    /\ fieldUI["email"].text = errorMessages("email", "required")
    /\ ~fieldUI["name"].error
    /\ FieldIsValid("name", fields["name"])
    /\ "name" \in DOMAIN errors

----------------------------------------------------------------------------
(* Properties of the Enter key *)

\* number of occurrences of step p in the sequence of steps ph
Count(ph, p) == Cardinality({i \in 1..Len(ph) : ph[i] = p})

\* C23: a keydown of Enter on a control other than the textarea, while no
\* submission is in flight, runs exactly one submit cycle and so makes at
\* most one send call; while a submission is in flight it starts nothing;
\* Enter in the textarea never starts a submission.
C23_EnterStartsOneCycle ==
    [][history'.field # NoFocus
        => LET f == history'.field IN
           /\ f = "message"
                => (history'.outcome = "noop" /\ UNCHANGED program)
           /\ isSubmitting
                => (history'.outcome = "noop" /\ UNCHANGED program)
           /\ (f # "message" /\ ~isSubmitting)
                => /\ history'.outcome \in {"invalid", "threw", "sending"}
                   /\ Count(history'.phases, "validateForm") = 1
                   /\ Count(history'.phases, "sendEmail") <= 1
                   /\ Len(inflight') <= Len(inflight) + 1
                   /\ Len(inflight') <= 1]_vars

\* Enter in the email control has started the one pending send
C23_Witness ==
    /\ history.field = "email"
    /\ history.outcome = "sending"
    /\ Len(inflight) = 1
    /\ isSubmitting

\* C25: once openProjectModal has been called and no close action (close
\* button, backdrop click, Escape) has been performed since, the modal is
\* displayed; in particular the hide timer of a closeModal issued before
\* the open does not hide it.
C25_OpenModalStaysDisplayed ==
    pageLog.modal = "open" => modal.display

\* C26: in every state with isMenuOpen true the overflow of document.body
\* is 'hidden', whatever the interleaving of menu toggles, modal actions
\* and closeModal timers.
C26_MenuOpenLocksScroll ==
    isMenuOpen => bodyOverflow = "hidden"

\* C27: in every state in which the project modal is displayed the
\* overflow of document.body is 'hidden', also when the click that opened
\* the modal closed the mobile menu through the document click listener.
C27_ModalLocksScroll ==
    modal.display => bodyOverflow = "hidden"

\* the filter clicks have settled: a filter was selected and no timer is
\* pending
Settled == pageLog.filter # "none" /\ pageTimers = <<>>

\* C28: once all timers of a sequence of filter clicks have fired, each
\* project card is displayed iff the last selected filter is 'all' or the
\* card's data-category, and currentFilter is the last selected filter.
C28_SettledCardsMatchLastFilter ==
    Settled =>
        /\ currentFilter = pageLog.filter
        /\ \A c \in CardSet :
              cards[c].display <=>
                  (pageLog.filter = "all" \/ pageLog.filter = Category(c))

\* settled after a click that came while the timers of an earlier click
\* were pending, one card shown and the other not
C28_Witness ==
    /\ Settled
    /\ pageLog.overlap
    /\ pageLog.filter = "api"
    /\ cards["fastapi-demo"].display
    /\ ~cards["flask-app"].display

\* C29: once all timers of a sequence of filter clicks have fired, a card
\* carries the class 'visible' iff it is displayed, and no displayed card
\* carries the class 'hidden', also for clicks less than 50 ms apart.
C29_SettledClassesMatchDisplay ==
    Settled =>
        \A c \in CardSet :
            /\ cards[c].visible <=> cards[c].display
            /\ cards[c].display => ~cards[c].hidden

\* C30: a call of the throttled function runs func if it is the first call
\* or comes more than limit ms after the last call that ran func, and is
\* dropped if it comes less than limit ms after that call.
C30_ThrottleWindow ==
    pageLog.event = "scroll" =>
        /\ pageLog.elapsed = -1 => pageLog.executed
        /\ pageLog.elapsed > scrollThrottleLimit => pageLog.executed
        /\ pageLog.elapsed \in 0..(scrollThrottleLimit - 1) =>
              ~pageLog.executed

\* a call that ran func after the window of an earlier one had passed
C30_Witness ==
    /\ pageLog.event = "scroll"
    /\ pageLog.elapsed > scrollThrottleLimit
    /\ pageLog.executed
    /\ inThrottle

\* the text the typewriter is on
CurrentText == texts[typewriter.currentTextIndex + 1]

\* a step of the typewriter that alters it: one character of the current
\* text is appended to a text not yet complete, or the last character is
\* removed, from a complete text by the callback of the pause timer and
\* from then on until the text is empty, whereupon the next text of the
\* list is taken, the first after the last
TypewriterStep ==
    LET shown == typewriter.textContent
        index == typewriter.currentTextIndex IN
    \/ /\ ~typewriter.isDeleting
       /\ Len(shown) < Len(CurrentText)
       /\ typewriter'.textContent = SubSeq(CurrentText, 1, Len(shown) + 1)
       /\ typewriter'.currentTextIndex = index
    \/ /\ Len(shown) > 0
       /\ \/ /\ shown = CurrentText
             /\ typeTimers[1] = [kind |-> "wait", left |-> 0]
          \/ /\ Len(shown) < Len(CurrentText)
             /\ typewriter.isDeleting
       /\ typewriter'.textContent = SubSeq(shown, 1, Len(shown) - 1)
       /\ typewriter'.currentTextIndex =
              IF Len(shown) = 1
              THEN IF index = Len(texts) - 1 THEN 0 ELSE index + 1
              ELSE index

\* C31: a single typewriter loop types the current text one character at
\* a time up to its full length, pauses, deletes it one character at a
\* time down to empty, goes on to the next text in list order, the first
\* after the last, and repeats forever: every text is shown in full again
\* and again.
C31_TypewriterCycle ==
    /\ [][typewriter' # typewriter => TypewriterStep]_vars
    /\ \A k \in 1..Len(texts) :
          []<>(typewriter.currentTextIndex = k - 1
                 /\ typewriter.textContent = texts[k])

\* the first text shown in full again after the last text was deleted
C31_Witness ==
    /\ animLog.wrapped
    /\ typewriter.currentTextIndex = 0
    /\ typewriter.textContent = texts[1]
    /\ typewriter.isWaiting
    /\ Len(typeTimers) = 1

\* C32: in every state, whatever the interleaving of timer callbacks with
\* pauses and resumes, currentCharIndex lies between 0 and the length of
\* the current text and currentTextIndex is an index of texts.
C32_IndicesInRange ==
    /\ typewriter.currentTextIndex \in 0..(Len(texts) - 1)
    /\ typewriter.currentCharIndex \in 0..Len(CurrentText)

\* C33: at most one timer of the typewriter is pending at any time,
\* whatever the sequence of pauseAllAnimations and resumeAllAnimations
\* calls and of timer callbacks: no two type() loops run side by side.
C33_OneTimerChain ==
    Len(typeTimers) <= 1

\* C34: if the user preferred reduced motion when the page loaded, then
\* isAnimationsPaused is true in every later state in which the preference
\* has not changed, also after the page was hidden and shown again.
C34_ReducedMotionStaysPaused ==
    animLog.reducedSinceLoad => isAnimationsPaused

====
